---- MODULE Spec2Model ----
(***************************************************************************)
(* HMAC_RNG (src/rng/hmac_rng/hmac_rng.cpp): the extract-then-expand       *)
(* generator, its entropy accounting, its reseed protocol and its output   *)
(* loop, as a state machine over one generator instance.                   *)
(*                                                                         *)
(* Representation choices                                                  *)
(*  - A byte buffer the generator owns (K, output) is a sequence of bytes. *)
(*  - A MAC object is [OUTPUT_LENGTH, key, acc]: acc is the checksum       *)
(*    (sum of bytes modulo 255) of the input absorbed since the last       *)
(*    final(), key the checksum of the key bytes (-1: cleared).  final()   *)
(*    returns the tag <<(key + acc) % 255, 0, ..., 0>>.  The MAC is an     *)
(*    external collaborator; this stand-in is deterministic, keyed, and    *)
(*    depends on every byte fed to it.                                     *)
(*  - u32bit values that can exceed 2^31 (the caller's input length, the   *)
(*    entropy estimate while it is being summed) are pairs <<hi, lo>> of   *)
(*    16-bit limbs, added modulo 2^32.                                     *)
(***************************************************************************)
EXTENDS Integers, Sequences, FiniteSets, TLC

VARIABLES rng, last, lifetime, ops, fed

vars == <<rng, last, lifetime, ops, fed>>

(***************************************************************************)
(* Bounds of the exploration                                               *)
(***************************************************************************)
MaxOps == 3          \* public calls made on the instance in one behaviour
MaxSources == 2      \* entropy sources registered in one behaviour
MaxOutBlocks == 2    \* output blocks of one randomize call kept in last.out

(***************************************************************************)
(* Program constants                                                       *)
(***************************************************************************)
ReseedCounter == 1048576     \* 0x100000, randomize line 46
PollInterval == 65536        \* randomize line 69
IoBufferSize == 128          \* io_buffer(128), constructor line 238

PrfLengths == {32, 64}       \* PRF OUTPUT_LENGTH of the instances explored
ExtractorLengths == {32, 64} \* extractor OUTPUT_LENGTH of the instances explored

Min(a, b) == IF a < b THEN a ELSE b

\* Body(v), with v evaluated once and then used as a value
With(v, Body(_)) == CHOOSE r \in {Body(x) : x \in {v}} : TRUE

(***************************************************************************)
(* u32bit arithmetic on 16-bit limbs                                       *)
(***************************************************************************)
U32(n) == <<n \div 65536, n % 65536>>

U32Add(a, b) ==
   LET lo == a[2] + b[2]
       hi == a[1] + b[1] + (lo \div 65536)
   IN  <<hi % 65536, lo % 65536>>

U32Less(a, b) == a[1] < b[1] \/ (a[1] = b[1] /\ a[2] < b[2])

U32Min(a, b) == IF U32Less(a, b) THEN a ELSE b

\* only applied to values below 2^31
U32Value(a) == a[1] * 65536 + a[2]

(***************************************************************************)
(* Byte strings                                                            *)
(***************************************************************************)
\* sum of the bytes at the positions in idx
RECURSIVE SumAt(_, _)
SumAt(s, idx) ==
   IF idx = {} THEN 0
   ELSE LET i == CHOOSE j \in idx : TRUE
        IN  s[i] + SumAt(s, idx \ {i})

\* checksum of a byte string: the sum of its bytes modulo 255 (zero bytes
\* add nothing, so only the non-zero positions are visited)
ByteSum(s) == With(s, LAMBDA x : SumAt(x, {i \in 1..Len(x) : x[i] # 0}) % 255)

ZeroBytes(n) == [i \in 1..n |-> 0]

IsAllZero(s) == \A i \in 1..Len(s) : s[i] = 0

\* "rng", "reseed", "xts"
RngLabel == <<114, 110, 103>>
ReseedLabel == <<114, 101, 115, 101, 101, 100>>
XtsLabel == <<120, 116, 115>>

\* "Botan HMAC_RNG PRF", "Botan HMAC_RNG XTS"
PrfKeyString == <<66, 111, 116, 97, 110, 32, 72, 77, 65, 67, 95, 82, 78, 71, 32, 80, 82, 70>>
XtsString == <<66, 111, 116, 97, 110, 32, 72, 77, 65, 67, 95, 82, 78, 71, 32, 88, 84, 83>>

\* get_byte(i, counter), i = 0..3, most significant byte first
get_byte(i, counter) ==
   CASE i = 0 -> (counter \div 16777216) % 256
     [] i = 1 -> (counter \div 65536) % 256
     [] i = 2 -> (counter \div 256) % 256
     [] OTHER -> counter % 256

(***************************************************************************)
(* MessageAuthenticationCode                                               *)
(***************************************************************************)
MacCreate(len) == [OUTPUT_LENGTH |-> len, key |-> -1, acc |-> 0]

MacSetKey(mac, keysum) == [mac EXCEPT !.key = keysum, !.acc = 0]

\* update() with bytes whose checksum is sum; an empty update has sum 0
MacUpdate(mac, sum) == [mac EXCEPT !.acc = (@ + sum) % 255]

MacTag(mac) ==
   LET k == IF mac.key = -1 THEN 0 ELSE mac.key
   IN  <<(k + mac.acc) % 255>> \o ZeroBytes(mac.OUTPUT_LENGTH - 1)

MacFinal(mac) ==
   With(mac, LAMBDA m : [out |-> MacTag(m), mac |-> [m EXCEPT !.acc = 0]])

MacClear(mac) == [mac EXCEPT !.key = -1, !.acc = 0]


(***************************************************************************)
(* Entropy sources: what a poll of each kind of source may return.         *)
(* got is the number of bytes written to io_buffer, at most its size.      *)
(***************************************************************************)
SourceKinds == {"dead", "weak", "strong", "flaky"}

FastGot(kind) ==
   CASE kind = "dead" -> {0}
     [] kind = "weak" -> {1}
     [] kind = "strong" -> {IoBufferSize}
     [] OTHER -> {0, 1}

SlowGot(kind) ==
   CASE kind = "dead" -> {0}
     [] kind = "weak" -> {1}
     [] kind = "strong" -> {IoBufferSize}
     [] OTHER -> {0, IoBufferSize}

\* the byte a source of this kind fills the buffer with
Fill(kind) ==
   CASE kind = "dead" -> 0
     [] kind = "weak" -> 90
     [] kind = "strong" -> 195
     [] OTHER -> 60

\* checksum of the first got bytes of io_buffer after a poll
PollData(kind, got) == (got * Fill(kind)) % 255

\* the results a sweep over all sources may return, one per source
FastSweeps(sources) ==
   {f \in [1..Len(sources) -> {0, 1, IoBufferSize}] :
       \A j \in 1..Len(sources) : f[j] \in FastGot(sources[j])}

SlowSweeps(sources) ==
   {f \in [1..Len(sources) -> {0, 1, IoBufferSize}] :
       \A j \in 1..Len(sources) : f[j] \in SlowGot(sources[j])}

(***************************************************************************)
(* hmac_prf                                                                *)
(***************************************************************************)
HmacPrf(prf, K, counter, label) ==
   LET m1 == MacUpdate(prf, ByteSum(K))
       m2 == MacUpdate(m1, ByteSum(label))
       m3 == MacUpdate(m2, get_byte(0, counter))
       m4 == MacUpdate(m3, get_byte(1, counter))
       m5 == MacUpdate(m4, get_byte(2, counter))
       m6 == MacUpdate(m5, get_byte(3, counter))
   IN  With(MacFinal(m6), LAMBDA f :
          [prf |-> f.mac, K |-> f.out, counter |-> counter + 1])

\* n >= 1 successive hmac_prf calls with the same label, folded: with the
\* checksum MAC the tag after n steps is
\*   acc + sum(K) + n * (key + sum(label) + counter) + n(n-1)/2   (mod 255)
\* because the four counter bytes sum to counter modulo 255.
HmacPrfN(prf, K, counter, label, n) ==
   LET k    == IF prf.key = -1 THEN 0 ELSE prf.key
       nm   == n % 255
       r    == n % 510
       tri  == ((r * (r - 1)) \div 2) % 255
       per  == (k + ByteSum(label) + (counter % 255)) % 255
       d    == (prf.acc + ByteSum(K) + nm * per + tri) % 255
   IN  [prf |-> [prf EXCEPT !.acc = 0],
        K |-> <<d>> \o ZeroBytes(prf.OUTPUT_LENGTH - 1),
        counter |-> counter + n]

(***************************************************************************)
(* HMAC_RNG                                                                *)
(***************************************************************************)
\* the constructor
Construct(extLen, prfLen) ==
   [extractor       |-> MacSetKey(MacCreate(extLen), ByteSum(XtsString)),
    prf             |-> MacSetKey(MacCreate(prfLen), ByteSum(PrfKeyString)),
    entropy         |-> 0,
    K               |-> ZeroBytes(prfLen),
    counter         |-> 0,
    source_index    |-> 0,
    entropy_sources |-> <<>>]

is_seeded(g) == g.entropy >= 8 * g.prf.OUTPUT_LENGTH

\* MemoryRegion::clear(): the buffer keeps its size, every byte becomes zero
KClear(K) == ZeroBytes(Len(K))

\* a caller's buffer: its length (u32bit) and the checksum of its bytes
NoInput == [length |-> U32(0), sum |-> 0]

\* variant: the polls are absorbed but not credited
RECURSIVE PollAll_nocredit(_, _, _, _, _)
PollAll_nocredit(extractor, entropy, sources, gots, j) ==
   IF j > Len(sources) THEN [extractor |-> extractor, entropy |-> entropy]
   ELSE PollAll_nocredit(MacUpdate(extractor, PollData(sources[j], gots[j])),
                         entropy, sources, gots, j + 1)

\* lines 118-125 / 127-134: one sweep over all sources, crediting got bytes
RECURSIVE PollAll(_, _, _, _, _)
PollAll(extractor, entropy, sources, gots, j) ==
   IF j > Len(sources) THEN [extractor |-> extractor, entropy |-> entropy]
   ELSE PollAll(MacUpdate(extractor, PollData(sources[j], gots[j])),
                U32Add(entropy, U32(gots[j])),
                sources, gots, j + 1)

\* variant: the caller's bytes are absorbed but not credited
AddInput_nocredit(extractor, entropy, input) ==
   IF input.length # U32(0)
   THEN [extractor |-> MacUpdate(extractor, input.sum), entropy |-> entropy]
   ELSE [extractor |-> extractor, entropy |-> entropy]

\* lines 140-144
AddInput(extractor, entropy, input) ==
   IF input.length # U32(0)
   THEN [extractor |-> MacUpdate(extractor, input.sum),
         entropy   |-> U32Add(entropy, input.length)]
   ELSE [extractor |-> extractor, entropy |-> entropy]

\* variant: std::max in place of std::min
CapEntropy_max(entropy, extractor) ==
   LET cap == U32(8 * extractor.OUTPUT_LENGTH)
   IN  U32Value(IF U32Less(entropy, cap) THEN cap ELSE entropy)

\* line 176
CapEntropy(entropy, extractor) ==
   U32Value(U32Min(entropy, U32(8 * extractor.OUTPUT_LENGTH)))

\* variant: the counter is not reset
ResetCounter_keep(counter) == counter

\* line 173
ResetCounter(counter) == 0

(***************************************************************************)
(* reseed_with_input, statement by statement.  Each statement maps the     *)
(* call's context c (the instance, the running u32bit entropy, the keys    *)
(* set so far) to the context after it.                                    *)
(***************************************************************************)
Enter(g) == [rng |-> g, entropy |-> U32(g.entropy), rekeys |-> <<>>]

\* lines 84-135
PollSources(c, fast, slow) ==
   IF Len(c.rng.entropy_sources) > 0
   THEN LET a == PollAll(c.rng.extractor, c.entropy, c.rng.entropy_sources, fast, 1)
            b == PollAll(a.extractor, a.entropy, c.rng.entropy_sources, slow, 1)
        IN  [c EXCEPT !.rng.extractor = b.extractor, !.entropy = b.entropy]
   ELSE c

\* lines 140-144
UserInput(c, input) ==
   LET r == AddInput(c.rng.extractor, c.entropy, input)
   IN  [c EXCEPT !.rng.extractor = r.extractor, !.entropy = r.entropy]

\* lines 157-158 (label "rng") and 160-161 (label "reseed")
Feedback(c, label) ==
   With(HmacPrf(c.rng.prf, c.rng.K, c.rng.counter, label), LAMBDA s :
      [c EXCEPT !.rng.prf = s.prf, !.rng.K = s.K, !.rng.counter = s.counter,
                !.rng.extractor = MacUpdate(@, ByteSum(s.K))])

\* line 165
DerivePrk(c) ==
   With(MacFinal(c.rng.extractor), LAMBDA prk :
      [c EXCEPT !.rng.extractor = prk.mac,
                !.rng.prf = MacSetKey(@, ByteSum(prk.out)),
                !.rekeys = Append(@, <<"prf", prk.out>>)])

\* lines 168-169
DeriveXts(c) ==
   With(HmacPrf(c.rng.prf, c.rng.K, c.rng.counter, XtsLabel), LAMBDA s :
      [c EXCEPT !.rng.prf = s.prf, !.rng.K = s.K, !.rng.counter = s.counter,
                !.rng.extractor = MacSetKey(@, ByteSum(s.K)),
                !.rekeys = Append(@, <<"extractor", s.K>>)])

\* lines 172-176; the call made three hmac_prf calls
ResetState(c) ==
   [rng    |-> [c.rng EXCEPT !.K = KClear(@),
                             !.counter = ResetCounter(@),
                             !.entropy = CapEntropy(c.entropy, c.rng.extractor)],
    rekeys |-> c.rekeys,
    steps  |-> 3]

\* variant: the extractor is re-keyed before the PRF
ReseedWithInput_xtsfirst(g, fast, slow, input) ==
   LET c1 == With(Enter(g), LAMBDA c : PollSources(c, fast, slow))
       c2 == With(c1, LAMBDA c : UserInput(c, input))
       c3 == With(c2, LAMBDA c : Feedback(c, RngLabel))
       c4 == With(c3, LAMBDA c : Feedback(c, ReseedLabel))
       c5 == With(c4, DeriveXts)
       c6 == With(c5, DerivePrk)
   IN  With(c6, ResetState)

ReseedWithInput(g, fast, slow, input) ==
   LET c1 == With(Enter(g), LAMBDA c : PollSources(c, fast, slow))
       c2 == With(c1, LAMBDA c : UserInput(c, input))
       c3 == With(c2, LAMBDA c : Feedback(c, RngLabel))
       c4 == With(c3, LAMBDA c : Feedback(c, ReseedLabel))
       c5 == With(c4, DerivePrk)
       c6 == With(c5, DeriveXts)
   IN  With(c6, ResetState)

\* variant: a do-while loop, the length tested after the first block
RECURSIVE OutputLoop_dowhile(_, _, _, _)
OutputLoop_dowhile(prf, K, counter, length) ==
   With(HmacPrf(prf, K, counter, RngLabel), LAMBDA s :
      With(IF length - Min(Len(s.K), length) = 0
           THEN [prf |-> s.prf, K |-> s.K, counter |-> s.counter,
                 out |-> <<>>, blocks |-> 0, written |-> 0]
           ELSE OutputLoop_dowhile(s.prf, s.K, s.counter,
                                   length - Min(Len(s.K), length)),
           LAMBDA r :
              [r EXCEPT !.out = SubSeq(s.K, 1, Min(Len(s.K), length)) \o @,
                        !.blocks = @ + 1,
                        !.written = @ + Min(Len(s.K), length)]))

\* variant: every block is copied whole, the last one too
RECURSIVE OutputLoop_notrunc(_, _, _, _)
OutputLoop_notrunc(prf, K, counter, length) ==
   IF length = 0
   THEN [prf |-> prf, K |-> K, counter |-> counter,
         out |-> <<>>, blocks |-> 0, written |-> 0]
   ELSE With(HmacPrf(prf, K, counter, RngLabel), LAMBDA s :
           With(OutputLoop_notrunc(s.prf, s.K, s.counter,
                                   length - Min(Len(s.K), length)),
                LAMBDA r :
                   [r EXCEPT !.out = s.K \o @,
                             !.blocks = @ + 1,
                             !.written = @ + Len(s.K)]))

\* lines 57-66, the output loop, one iteration per block
RECURSIVE OutputLoop(_, _, _, _)
OutputLoop(prf, K, counter, length) ==
   IF length = 0
   THEN [prf |-> prf, K |-> K, counter |-> counter,
         out |-> <<>>, blocks |-> 0, written |-> 0]
   ELSE With(HmacPrf(prf, K, counter, RngLabel), LAMBDA s :
           With(OutputLoop(s.prf, s.K, s.counter, length - Min(Len(s.K), length)),
                LAMBDA r :
                   [r EXCEPT !.out = SubSeq(s.K, 1, Min(Len(s.K), length)) \o @,
                             !.blocks = @ + 1,
                             !.written = @ + Min(Len(s.K), length)]))

\* number of iterations the loop makes for a request of length bytes
BlocksFor(K, length) == (length + Len(K) - 1) \div Len(K)

\* The output loop on a request of any length.  A request of more than
\* MaxOutBlocks blocks runs its leading full blocks through HmacPrfN and
\* its last MaxOutBlocks blocks through OutputLoop; out then holds the
\* bytes of those last blocks only, written counts all bytes copied.
RngLoop(prf, K, counter, length) ==
   LET blocks == BlocksFor(K, length)
   IN  IF blocks <= MaxOutBlocks
       THEN OutputLoop(prf, K, counter, length)
       ELSE LET skip == blocks - MaxOutBlocks
            IN  With(HmacPrfN(prf, K, counter, RngLabel, skip), LAMBDA s :
                   With(OutputLoop(s.prf, s.K, s.counter, length - skip * Len(K)),
                        LAMBDA r :
                           [r EXCEPT !.blocks = @ + skip,
                                     !.written = @ + skip * Len(K)]))

\* variant: only the counter is tested
NeedsReseed_counteronly(g) == g.counter >= ReseedCounter

\* variant: the counter is not tested
NeedsReseed_seedonly(g) == ~is_seeded(g)

\* variant: > in place of >=
NeedsReseed_gt(g) == ~is_seeded(g) \/ g.counter > ReseedCounter

\* line 46
NeedsReseed(g) == ~is_seeded(g) \/ g.counter >= ReseedCounter

\* variant: no poll while counter is 0
PollDue_nonzero(g) ==
   Len(g.entropy_sources) > 0 /\ g.counter % PollInterval = 0 /\ g.counter # 0

\* variant: the poll is made once the counter has passed the interval
PollDue_passed(g) == Len(g.entropy_sources) > 0 /\ g.counter >= PollInterval

\* line 69
PollDue(g) == Len(g.entropy_sources) > 0 /\ g.counter % PollInterval = 0

\* variant: source_index is advanced without the modulo
IncidentalPoll_nowrap(g, got) ==
   [g EXCEPT !.source_index = g.source_index + 1,
             !.extractor = MacUpdate(g.extractor,
                              PollData(g.entropy_sources[g.source_index + 1], got))]

\* variant: the incidental poll is credited like a poll of a reseed
IncidentalPoll_credit(g, got) ==
   [g EXCEPT !.source_index = (g.source_index + 1) % Len(g.entropy_sources),
             !.entropy = g.entropy + got,
             !.extractor = MacUpdate(g.extractor,
                              PollData(g.entropy_sources[g.source_index + 1], got))]

\* lines 71-75: fast poll of the source at source_index (0-based)
IncidentalPoll(g, got) ==
   [g EXCEPT !.source_index = (g.source_index + 1) % Len(g.entropy_sources),
             !.extractor = MacUpdate(g.extractor,
                              PollData(g.entropy_sources[g.source_index + 1], got))]

\* variant: a reseed that leaves the generator unseeded is tried once more
ReseedCheck_retry(g, fast, slow) ==
   IF NeedsReseed(g)
   THEN With(ReseedWithInput(g, fast, slow, NoInput), LAMBDA rs :
           IF is_seeded(rs.rng)
           THEN [rng |-> rs.rng, reseeded |-> TRUE, threw |-> FALSE,
                 rekeys |-> rs.rekeys, steps |-> rs.steps]
           ELSE With(ReseedWithInput(rs.rng, fast, slow, NoInput), LAMBDA rt :
                   [rng |-> rt.rng, reseeded |-> TRUE,
                    threw |-> ~is_seeded(rt.rng),
                    rekeys |-> rs.rekeys \o rt.rekeys,
                    steps |-> rs.steps + rt.steps]))
   ELSE [rng |-> g, reseeded |-> FALSE, threw |-> FALSE,
         rekeys |-> <<>>, steps |-> 0]

\* lines 46-52: the reseed check; threw tells that PRNG_Unseeded was thrown
ReseedCheck(g, fast, slow) ==
   IF NeedsReseed(g)
   THEN With(ReseedWithInput(g, fast, slow, NoInput), LAMBDA rs :
           [rng |-> rs.rng, reseeded |-> TRUE, threw |-> ~is_seeded(rs.rng),
            rekeys |-> rs.rekeys, steps |-> rs.steps])
   ELSE [rng |-> g, reseeded |-> FALSE, threw |-> FALSE,
         rekeys |-> <<>>, steps |-> 0]

\* lines 57-66: the output loop of a call that passed the reseed check
RunLoop(c, length) ==
   With(RngLoop(c.rng.prf, c.rng.K, c.rng.counter, length), LAMBDA lp :
      [rng |-> [c.rng EXCEPT !.prf = lp.prf, !.K = lp.K, !.counter = lp.counter],
       threw |-> FALSE, reseeded |-> c.reseeded,
       seeded_at_loop |-> is_seeded(c.rng), blocks |-> lp.blocks,
       written |-> lp.written, out |-> lp.out, polled |-> FALSE,
       rekeys |-> c.rekeys, steps |-> c.steps + lp.blocks])

\* lines 69-76
PollIfDue(c, got) ==
   IF PollDue(c.rng)
   THEN [c EXCEPT !.rng = IncidentalPoll(@, got), !.polled = TRUE]
   ELSE c

\* the call as it ends when PRNG_Unseeded is thrown at line 51
Thrown(c) ==
   [rng |-> c.rng, threw |-> TRUE, reseeded |-> TRUE,
    seeded_at_loop |-> FALSE, blocks |-> 0, written |-> 0,
    out |-> <<>>, polled |-> FALSE, rekeys |-> c.rekeys, steps |-> c.steps]

\* randomize(out, length): fast and slow are the results of the polls of
\* the reseed it may make, got the result of its incidental poll
Randomize(g, length, fast, slow, got) ==
   With(ReseedCheck(g, fast, slow), LAMBDA c :
      IF c.threw
      THEN Thrown(c)
      ELSE With(RunLoop(c, length), LAMBDA d : PollIfDue(d, got)))

\* lines 199-202
add_entropy_source(g, src) ==
   [g EXCEPT !.entropy_sources = Append(g.entropy_sources, src)]

\* variant: counter is not reset
clear_keepcounter(g) ==
   [g EXCEPT !.extractor = MacClear(g.extractor),
             !.prf = MacClear(g.prf),
             !.K = KClear(g.K),
             !.entropy = 0,
             !.source_index = 0]

\* lines 215-223
clear(g) ==
   [g EXCEPT !.extractor = MacClear(g.extractor),
             !.prf = MacClear(g.prf),
             !.K = KClear(g.K),
             !.entropy = 0,
             !.counter = 0,
             !.source_index = 0]

(***************************************************************************)
(* The state machine.  rng is the instance.  The other variables record    *)
(* its history: last is what the last public call did (pre the instance    *)
(* before it, steps its number of hmac_prf calls), lifetime the number of  *)
(* hmac_prf calls since construction modulo PollInterval, ops the number   *)
(* of public calls made, fed whether add_entropy has ever been called.     *)
(***************************************************************************)
\* request lengths: none, one byte, one block, one block and a byte,
\* PollInterval blocks, ReseedCounter blocks
RandomizeLengths(g) ==
   LET L == g.prf.OUTPUT_LENGTH
   IN  {0, 1, L, L + 1, PollInterval * L, ReseedCounter * L}

\* caller inputs of add_entropy: empty, 64 bytes, 256 bytes, 2^32 - 256 bytes
AddEntropyInputs ==
   {NoInput,
    [length |-> U32(64), sum |-> 17],
    [length |-> U32(256), sum |-> 99],
    [length |-> <<65535, 65280>>, sum |-> 201]}

Outcome(op, pre, length, input, fast, slow, got, r) ==
   [op |-> op, pre |-> pre, length |-> length, input |-> input,
    fast |-> fast, slow |-> slow, got |-> got,
    threw |-> r.threw, reseeded |-> r.reseeded,
    seeded_at_loop |-> r.seeded_at_loop, blocks |-> r.blocks,
    written |-> r.written, out |-> r.out, polled |-> r.polled,
    rekeys |-> r.rekeys, steps |-> r.steps]

\* what a call other than randomize reports
Plain(reseeded, rekeys, steps) ==
   [threw |-> FALSE, reseeded |-> reseeded, seeded_at_loop |-> FALSE,
    blocks |-> 0, written |-> 0, out |-> <<>>, polled |-> FALSE,
    rekeys |-> rekeys, steps |-> steps]

Init ==
   /\ \E extLen \in ExtractorLengths, prfLen \in PrfLengths :
         rng = Construct(extLen, prfLen)
   /\ last = Outcome("construct", rng, 0, NoInput, <<>>, <<>>, 0, Plain(FALSE, <<>>, 0))
   /\ lifetime = 0
   /\ ops = 0
   /\ fed = FALSE

Call(op) ==
   /\ ops < MaxOps
   /\ ops' = ops + 1
   /\ fed' = (fed \/ op = "add_entropy")

DoRandomize ==
   /\ Call("randomize")
   /\ \E length \in RandomizeLengths(rng) :
      \E fast \in IF NeedsReseed(rng) THEN FastSweeps(rng.entropy_sources) ELSE {<<>>} :
      \E slow \in IF NeedsReseed(rng) THEN SlowSweeps(rng.entropy_sources) ELSE {<<>>} :
      \E got \in IF Len(rng.entropy_sources) > 0
                 THEN FastGot(rng.entropy_sources[rng.source_index + 1]) ELSE {0} :
      \E r \in {Randomize(rng, length, fast, slow, got)} :
         /\ rng' = r.rng
         /\ last' = Outcome("randomize", rng, length, NoInput, fast, slow, got, r)
         /\ lifetime' = (lifetime + r.steps) % PollInterval

DoReseed ==
   /\ Call("reseed")
   /\ \E fast \in FastSweeps(rng.entropy_sources) :
      \E slow \in SlowSweeps(rng.entropy_sources) :
      \E r \in {ReseedWithInput(rng, fast, slow, NoInput)} :
         /\ rng' = r.rng
         /\ last' = Outcome("reseed", rng, 0, NoInput, fast, slow, 0,
                            Plain(TRUE, r.rekeys, r.steps))
         /\ lifetime' = (lifetime + r.steps) % PollInterval

DoAddEntropy ==
   /\ Call("add_entropy")
   /\ \E input \in AddEntropyInputs :
      \E fast \in FastSweeps(rng.entropy_sources) :
      \E slow \in SlowSweeps(rng.entropy_sources) :
      \E r \in {ReseedWithInput(rng, fast, slow, input)} :
         /\ rng' = r.rng
         /\ last' = Outcome("add_entropy", rng, 0, input, fast, slow, 0,
                            Plain(TRUE, r.rekeys, r.steps))
         /\ lifetime' = (lifetime + r.steps) % PollInterval

DoAddEntropySource ==
   /\ Call("add_entropy_source")
   /\ Len(rng.entropy_sources) < MaxSources
   /\ \E src \in SourceKinds :
         /\ rng' = add_entropy_source(rng, src)
         /\ last' = Outcome("add_entropy_source", rng, 0, NoInput, <<>>, <<>>, 0,
                            Plain(FALSE, <<>>, 0))
   /\ UNCHANGED lifetime

DoClear ==
   /\ Call("clear")
   /\ rng' = clear(rng)
   /\ last' = Outcome("clear", rng, 0, NoInput, <<>>, <<>>, 0, Plain(FALSE, <<>>, 0))
   /\ UNCHANGED lifetime

Next ==
   \/ DoRandomize
   \/ DoReseed
   \/ DoAddEntropy
   \/ DoAddEntropySource
   \/ DoClear

Spec == Init /\ [][Next]_vars

(***************************************************************************)
(* A caller that registers its sources on the new instance and then calls  *)
(* reseed() until is_seeded().  Its sources return a fixed number of bytes *)
(* per poll.  Only the instance changes; the history variables are not     *)
(* kept.                                                                   *)
(***************************************************************************)
SteadyKinds ==
   {kind \in SourceKinds :
       Cardinality(FastGot(kind)) = 1 /\ Cardinality(SlowGot(kind)) = 1}

Register ==
   /\ Len(rng.entropy_sources) < MaxSources
   /\ [rng EXCEPT !.entropy_sources = <<>>] =
         Construct(rng.extractor.OUTPUT_LENGTH, rng.prf.OUTPUT_LENGTH)
   /\ \E src \in SteadyKinds : rng' = add_entropy_source(rng, src)
   /\ UNCHANGED <<last, lifetime, ops, fed>>

ReseedAgain ==
   /\ ~is_seeded(rng)
   /\ \E fast \in FastSweeps(rng.entropy_sources) :
      \E slow \in SlowSweeps(rng.entropy_sources) :
         rng' = ReseedWithInput(rng, fast, slow, NoInput).rng
   /\ UNCHANGED <<last, lifetime, ops, fed>>

NextReseed == Register \/ ReseedAgain

\* reseed() is called again and again while the generator is unseeded
SpecReseed == Init /\ [][NextReseed]_vars /\ WF_vars(ReseedAgain)

TypeOK ==
   /\ rng.counter \in Nat
   /\ rng.entropy \in 0..(8 * rng.extractor.OUTPUT_LENGTH)
   /\ Len(rng.K) = rng.prf.OUTPUT_LENGTH
   /\ ops \in 0..MaxOps
   /\ fed \in BOOLEAN

\* HmacPrfN agrees with repeated HmacPrf
FoldOK ==
   LET a  == HmacPrf(rng.prf, rng.K, rng.counter, RngLabel)
       b  == HmacPrf(a.prf, a.K, a.counter, RngLabel)
       c  == HmacPrf(b.prf, b.K, b.counter, RngLabel)
   IN  /\ HmacPrfN(rng.prf, rng.K, rng.counter, RngLabel, 1) = a
       /\ HmacPrfN(rng.prf, rng.K, rng.counter, RngLabel, 2) = b
       /\ HmacPrfN(rng.prf, rng.K, rng.counter, RngLabel, 3) = c

(***************************************************************************)
(* Properties                                                              *)
(***************************************************************************)
\* the instance after one add_entropy call on a new instance without sources
FedOnce(extLen, prfLen, input) ==
   ReseedWithInput(Construct(extLen, prfLen), <<>>, <<>>, input).rng

InputsOfLength(n) == {input \in AddEntropyInputs : input.length = U32(n)}

\* C1 as stated: with PRF and extractor of 32 bytes and no sources, one
\* add_entropy of 64 bytes seeds the generator, and a randomize of 32 bytes
\* after it returns 32 bytes without throwing.
C1_Original ==
   /\ (/\ last.op = "add_entropy"
       /\ last.pre = Construct(32, 32)
       /\ last.input.length = U32(64))
      => is_seeded(rng)
   /\ (/\ last.op = "randomize"
       /\ last.length = 32
       /\ \E input \in InputsOfLength(64) : last.pre = FedOnce(32, 32, input))
      => (~last.threw /\ last.written = 32 /\ Len(last.out) = 32)

\* C1 amended: with PRF and extractor of 32 bytes and no sources, one
\* add_entropy of 256 bytes (256 bits credited, one per byte) seeds the
\* generator, and a randomize of 32 bytes after it returns 32 bytes without
\* throwing; 64 bytes credit 64 bits and leave it unseeded.
C1_Seeded256 ==
   /\ (/\ last.op = "add_entropy"
       /\ last.pre = Construct(32, 32)
       /\ last.input.length = U32(256))
      => is_seeded(rng)
   /\ (/\ last.op = "add_entropy"
       /\ last.pre = Construct(32, 32)
       /\ last.input.length = U32(64))
      => (rng.entropy = 64 /\ ~is_seeded(rng))
   /\ (/\ last.op = "randomize"
       /\ last.length = 32
       /\ \E input \in InputsOfLength(256) : last.pre = FedOnce(32, 32, input))
      => (~last.threw /\ last.written = 32 /\ Len(last.out) = 32)

C1_Witness ==
   /\ last.op = "randomize"
   /\ last.length = 32
   /\ \E input \in InputsOfLength(256) : last.pre = FedOnce(32, 32, input)
   /\ ~last.threw
   /\ Len(last.out) = 32

\* C2: randomize copies bytes to the caller (and runs its output loop) only
\* if is_seeded() is true when the loop starts; the estimate is then at
\* least 8 * PRF.OUTPUT_LENGTH, and still is when the call returns.
C2_OutputOnlyWhenSeeded ==
   (last.op = "randomize" /\ (last.written > 0 \/ last.blocks > 0))
      => /\ last.seeded_at_loop
         /\ ~last.threw
         /\ rng.entropy >= 8 * rng.prf.OUTPUT_LENGTH

C2_Witness ==
   /\ last.op = "randomize"
   /\ last.written > 0
   /\ ~is_seeded(last.pre)
   /\ last.reseeded

\* C3: with no source registered and add_entropy never called, the
\* generator is unseeded and every randomize of a positive length throws,
\* writing nothing, whatever calls were made before.
C3_UnseededWithoutEntropy ==
   (Len(rng.entropy_sources) = 0 /\ ~fed)
      => /\ ~is_seeded(rng)
         /\ (last.op = "randomize" /\ last.length > 0)
               => (last.threw /\ last.written = 0)

C3_Witness ==
   /\ Len(rng.entropy_sources) = 0
   /\ ~fed
   /\ ops = 3
   /\ last.op = "randomize"
   /\ last.length > 0
   /\ last.threw

\* C4 as stated: a randomize of length 0 never throws.
C4_Original ==
   (last.op = "randomize" /\ last.length = 0) => ~last.threw

\* C4 amended: a randomize of length 0 writes nothing and runs no iteration
\* of the output loop; it returns normally exactly when the generator is
\* seeded after its reseed check, and throws the unseeded error when the
\* generator is still unseeded after that reseed attempt.
C4_ZeroLength ==
   (last.op = "randomize" /\ last.length = 0)
      => /\ last.threw <=> ~is_seeded(rng)
         /\ last.written = 0
         /\ last.blocks = 0
         /\ last.out = <<>>
         /\ rng.counter = IF last.reseeded THEN 0 ELSE last.pre.counter

C4_Witness ==
   /\ last.op = "randomize"
   /\ last.length = 0
   /\ ~last.threw
   /\ is_seeded(rng)

\* C6 as stated: a call of randomize, reseed, add_entropy or
\* add_entropy_source on a seeded generator leaves it seeded, and such a
\* randomize does not throw.
C6_Original ==
   (/\ last.op \in {"randomize", "reseed", "add_entropy", "add_entropy_source"}
    /\ is_seeded(last.pre))
      => (is_seeded(rng) /\ ~last.threw)

Crossings ==
   LET before == (lifetime + PollInterval - (last.steps % PollInterval)) % PollInterval
   IN  (before + last.steps) \div PollInterval

\* C8 as stated: with a non-empty registry, randomize makes one fast poll
\* each time the lifetime count of hmac_prf calls reaches a multiple of 65536.
C8_Original ==
   (last.op = "randomize" /\ Len(last.pre.entropy_sources) > 0)
      => (IF last.polled THEN 1 ELSE 0) = Crossings

\* the instance on which the last randomize ran its output loop
AtLoop ==
   IF last.reseeded
   THEN ReseedWithInput(last.pre, last.fast, last.slow, NoInput).rng
   ELSE last.pre

\* C8 amended: a randomize that returns normally makes exactly one fast
\* poll, of the source at source_index, fed to the extractor, if the
\* registry is non-empty and counter (the hmac_prf calls since the last
\* reseed) is a multiple of 65536, zero included, when its output loop
\* ends; otherwise, and when it throws, it makes none.
C8_PollAtEndOfCall ==
   last.op = "randomize"
      => /\ last.polled <=> /\ ~last.threw
                            /\ Len(rng.entropy_sources) > 0
                            /\ rng.counter % 65536 = 0
         /\ last.polled =>
               /\ rng.source_index =
                     (last.pre.source_index + 1) % Len(rng.entropy_sources)
               /\ rng.extractor =
                     MacUpdate(AtLoop.extractor,
                        PollData(rng.entropy_sources[last.pre.source_index + 1],
                                 last.got))
         /\ ~last.polled =>
               /\ rng.source_index = last.pre.source_index
               /\ rng.extractor = AtLoop.extractor

C8_Witness ==
   /\ last.op = "randomize"
   /\ last.polled
   /\ rng.counter = 65536
   /\ last.pre.counter = 0

\* C9: K always has the PRF's output length; after reseed() and
\* add_entropy(), and after a randomize that reseeded and produced no
\* block, counter is 0 and K is all zero.
C9_AfterReseed ==
   /\ Len(rng.K) = rng.prf.OUTPUT_LENGTH
   /\ (\/ last.op \in {"reseed", "add_entropy"}
       \/ (last.op = "randomize" /\ last.reseeded /\ last.blocks = 0))
      => (rng.counter = 0 /\ IsAllZero(rng.K))

C9_Witness ==
   /\ last.op = "randomize"
   /\ last.reseeded
   /\ last.blocks = 0
   /\ ~last.threw
   /\ last.pre.counter > 0
   /\ ~IsAllZero(last.pre.K)
   /\ rng.counter = 0

\* a registered source whose fast and slow polls always return a byte or more
HasGoodSource ==
   \E j \in 1..Len(rng.entropy_sources) :
      /\ 0 \notin FastGot(rng.entropy_sources[j])
      /\ 0 \notin SlowGot(rng.entropy_sources[j])

\* C5 as stated: with a source whose polls each return at least one byte,
\* repeated reseed() calls eventually seed the generator, whatever the
\* output lengths of the PRF and of the extractor.
C5_Original == HasGoodSource ~> is_seeded(rng)

\* C5 amended: the same, for an extractor whose output is at least as long
\* as the PRF's (the estimate is capped at 8 * extractor output length, so
\* with a shorter extractor it never reaches 8 * PRF output length).
C5_EventuallySeeded ==
   (HasGoodSource /\ rng.extractor.OUTPUT_LENGTH >= rng.prf.OUTPUT_LENGTH)
      ~> is_seeded(rng)

C5_Witness ==
   /\ rng.entropy_sources = <<"weak">>
   /\ rng.extractor.OUTPUT_LENGTH >= rng.prf.OUTPUT_LENGTH
   /\ is_seeded(rng)

\* the instance as constructed with the MACs of the present one
Fresh == Construct(rng.extractor.OUTPUT_LENGTH, rng.prf.OUTPUT_LENGTH)

\* C11 as stated: after clear() the instance equals a new instance in
\* everything but the two MAC keys, the registry of sources included.
C11_Original ==
   last.op = "clear"
      => [rng EXCEPT !.extractor.key = Fresh.extractor.key,
                     !.prf.key = Fresh.prf.key] = Fresh

\* C11 amended: after clear(), in any state, entropy, counter and
\* source_index are 0, K is all zero of the PRF's length, is_seeded() is
\* false, both MACs are cleared (no key, no pending input), and the registry
\* of sources is the one before the call: the instance equals a new one in
\* everything but the two MAC keys and the registry.
C11_ClearKeepsRegistry ==
   last.op = "clear"
      => /\ rng.entropy = 0
         /\ rng.counter = 0
         /\ rng.source_index = 0
         /\ IsAllZero(rng.K)
         /\ Len(rng.K) = rng.prf.OUTPUT_LENGTH
         /\ ~is_seeded(rng)
         /\ rng.extractor = MacCreate(rng.extractor.OUTPUT_LENGTH)
         /\ rng.prf = MacCreate(rng.prf.OUTPUT_LENGTH)
         /\ rng.entropy_sources = last.pre.entropy_sources
         /\ [rng EXCEPT !.extractor.key = Fresh.extractor.key,
                        !.prf.key = Fresh.prf.key,
                        !.entropy_sources = <<>>] = Fresh

C11_Witness ==
   /\ last.op = "clear"
   /\ Len(rng.entropy_sources) > 0
   /\ last.pre.counter > 0
   /\ is_seeded(last.pre)
   /\ rng.counter = 0

\* C12 as stated: counter, the number of output steps made under the
\* present PRF key, never exceeds 2^20, whatever the request lengths.
C12_Original == rng.counter <= ReseedCounter

\* C12 amended: counter is tested once, on entry to randomize, so every
\* output loop starts with counter < 2^20 and then runs all the blocks of
\* its request without a reseed: on return counter is below
\* 2^20 + the number of blocks of that one call, and it may exceed 2^20.
C12_BoundedAtEntry ==
   (last.op = "randomize" /\ ~last.threw)
      => /\ rng.counter - last.blocks < ReseedCounter
         /\ rng.counter - last.blocks =
               IF last.reseeded THEN 0 ELSE last.pre.counter
         /\ last.blocks = BlocksFor(rng.K, last.length)
         /\ rng.counter < ReseedCounter + BlocksFor(rng.K, last.length)

C12_Witness ==
   /\ last.op = "randomize"
   /\ ~last.threw
   /\ ~last.reseeded
   /\ last.pre.counter > 0
   /\ rng.counter > ReseedCounter

\* the last call ran reseed_with_input
RanReseed ==
   \/ last.op \in {"reseed", "add_entropy"}
   \/ (last.op = "randomize" /\ last.reseeded)

\* bytes returned by the polls of the last call's reseed
PolledBytes ==
   SumAt(last.fast, DOMAIN last.fast) + SumAt(last.slow, DOMAIN last.slow)

\* C13 as stated: after a reseed_with_input call the estimate is
\* min(e + sum of fast bytes + sum of slow bytes + n, 8 * extractor output
\* length), the sum taken exactly; and the estimate never exceeds that cap.
\* (An input of 65536 bytes or more alone exceeds the cap.)
C13_Original ==
   /\ rng.entropy <= 8 * rng.extractor.OUTPUT_LENGTH
   /\ RanReseed =>
         rng.entropy =
            IF last.input.length[1] > 0
            THEN 8 * rng.extractor.OUTPUT_LENGTH
            ELSE Min(last.pre.entropy + PolledBytes + last.input.length[2],
                     8 * rng.extractor.OUTPUT_LENGTH)

\* C14 as stated: no call other than clear() lowers the estimate.
C14_Original ==
   last.op \in {"randomize", "reseed", "add_entropy", "add_entropy_source"}
      => rng.entropy >= last.pre.entropy

\* C15: a randomize that does not reseed leaves the estimate (and so
\* is_seeded) as it was, also when it makes the incidental poll; the poll
\* advances source_index and feeds the extractor, and leaves counter alone.
\* After a randomize that reseeded the estimate is the one its reseed left.
C15_PollNotCredited ==
   last.op = "randomize"
      => /\ ~last.reseeded =>
               /\ rng.entropy = last.pre.entropy
               /\ is_seeded(rng) <=> is_seeded(last.pre)
               /\ rng.counter = last.pre.counter + last.blocks
         /\ last.reseeded => rng.entropy = AtLoop.entropy
         /\ last.polled =>
               /\ rng.source_index # last.pre.source_index
                     \/ Len(rng.entropy_sources) = 1
               /\ rng.extractor.acc =
                     (AtLoop.extractor.acc
                        + PollData(rng.entropy_sources[last.pre.source_index + 1],
                                   last.got)) % 255

C15_Witness ==
   /\ last.op = "randomize"
   /\ ~last.reseeded
   /\ last.polled
   /\ last.got > 0
   /\ rng.extractor.acc # last.pre.extractor.acc

\* the values of K after each of b successive hmac_prf steps with label
\* "rng", concatenated
RECURSIVE KBlocks(_, _, _, _)
KBlocks(prf, K, counter, b) ==
   IF b = 0 THEN <<>>
   ELSE With(HmacPrf(prf, K, counter, RngLabel), LAMBDA s :
           s.K \o KBlocks(s.prf, s.K, s.counter, b - 1))

\* the bytes last.out must hold for a request of n bytes on instance g:
\* the blocks of the request, truncated to n bytes; of a request of more
\* than MaxOutBlocks blocks, the last MaxOutBlocks blocks
Keystream(g, n) ==
   LET L      == Len(g.K)
       blocks == (n + L - 1) \div L
       skip   == IF blocks > MaxOutBlocks THEN blocks - MaxOutBlocks ELSE 0
   IN  With(IF skip = 0 THEN [prf |-> g.prf, K |-> g.K, counter |-> g.counter]
            ELSE HmacPrfN(g.prf, g.K, g.counter, RngLabel, skip),
            LAMBDA s : SubSeq(KBlocks(s.prf, s.K, s.counter, blocks - skip),
                              1, n - skip * L))

\* C16: on a seeded generator with counter < 2^20, randomize(out, n) makes
\* exactly ceil(n / PRF.OUTPUT_LENGTH) hmac_prf steps, all with label "rng",
\* adds that number to counter, re-keys nothing, and writes exactly n bytes:
\* the successive values of K, the last one truncated.
C16_Keystream ==
   (/\ last.op = "randomize"
    /\ is_seeded(last.pre)
    /\ last.pre.counter < ReseedCounter)
      => /\ ~last.threw
         /\ last.blocks = (last.length + Len(rng.K) - 1) \div Len(rng.K)
         /\ last.steps = last.blocks
         /\ rng.counter = last.pre.counter + last.blocks
         /\ last.written = last.length
         /\ last.out = Keystream(last.pre, last.length)
         /\ last.blocks > 0 =>
               rng.K = HmacPrfN(last.pre.prf, last.pre.K, last.pre.counter,
                                RngLabel, last.blocks).K
         /\ last.blocks = 0 => rng.K = last.pre.K

C16_Witness ==
   /\ last.op = "randomize"
   /\ is_seeded(last.pre)
   /\ last.pre.counter \in 1..(ReseedCounter - 1)
   /\ last.blocks = 2
   /\ Len(last.out) = Len(rng.K) + 1
   /\ last.out[1] # last.out[Len(rng.K) + 1]

\* checksum of the poll data of one sweep
SweepData(sources, gots) ==
   SumAt([j \in DOMAIN gots |-> PollData(sources[j], gots[j])], DOMAIN gots) % 255

\* the set_key calls a reseed_with_input on instance g must make, in order:
\* the PRF with the extractor's output over everything absorbed, then the
\* extractor with the K of the "xts" step made under the new PRF key
ExpectedRekeys(g, fast, slow, input) ==
   LET s1  == HmacPrf(g.prf, g.K, g.counter, RngLabel)
       s2  == HmacPrf(s1.prf, s1.K, s1.counter, ReseedLabel)
       acc == (g.extractor.acc
                 + SweepData(g.entropy_sources, fast)
                 + SweepData(g.entropy_sources, slow)
                 + (IF input.length # U32(0) THEN input.sum ELSE 0)
                 + ByteSum(s1.K) + ByteSum(s2.K)) % 255
       prk == MacTag([g.extractor EXCEPT !.acc = acc])
       s3  == HmacPrf(MacSetKey(s2.prf, ByteSum(prk)), s2.K, s2.counter, XtsLabel)
   IN  <<(<<"prf", prk>>), (<<"extractor", s3.K>>)>>

\* C17: every reseed_with_input re-keys the PRF once, with the extractor's
\* output over the polls, the caller's input and the "rng" and "reseed"
\* blocks, then the extractor once, with the K of the "xts" step under the
\* new PRF key; the output loop and the incidental poll re-key nothing.
C17_RekeyOrder ==
   /\ RanReseed =>
         /\ last.rekeys =
               ExpectedRekeys(last.pre, last.fast, last.slow, last.input)
         /\ rng.prf.key = ByteSum(last.rekeys[1][2])
         /\ rng.extractor.key = ByteSum(last.rekeys[2][2])
   /\ (last.op = "randomize" /\ ~last.reseeded) =>
         /\ last.rekeys = <<>>
         /\ rng.prf.key = last.pre.prf.key
         /\ rng.extractor.key = last.pre.extractor.key

C17_Witness ==
   /\ last.op = "add_entropy"
   /\ Len(last.pre.entropy_sources) > 0
   /\ last.input.length # U32(0)
   /\ last.pre.counter > 0
   /\ Len(last.rekeys) = 2
   /\ last.rekeys[1][2] # last.rekeys[2][2]

\* C18: a randomize that throws has made one reseed attempt and nothing
\* else: no byte written, no output block, no incidental poll, and the
\* instance is the one reseed() leaves from the same state with the same
\* poll results: the bytes polled are credited, counter is 0, source_index
\* is as before.  Nothing is retried, nothing is rolled back.
C18_FailedRandomize ==
   (last.op = "randomize" /\ last.threw)
      => /\ rng = ReseedWithInput(last.pre, last.fast, last.slow, NoInput).rng
         /\ last.steps = 3
         /\ Len(last.rekeys) = 2
         /\ last.written = 0
         /\ last.out = <<>>
         /\ last.blocks = 0
         /\ ~last.polled
         /\ rng.counter = 0
         /\ rng.source_index = last.pre.source_index
         /\ rng.entropy = Min(last.pre.entropy + PolledBytes,
                              8 * rng.extractor.OUTPUT_LENGTH)
         /\ ~is_seeded(rng)

C18_Witness ==
   /\ last.op = "randomize"
   /\ last.threw
   /\ Len(rng.entropy_sources) > 0
   /\ rng.entropy > last.pre.entropy
   /\ rng.prf.key # last.pre.prf.key

\* counter when the output loop of the last randomize started
LoopStart == rng.counter - last.blocks

\* C19: the incidental poll is decided once per randomize that returns
\* normally, after its loop: it is made iff the registry is non-empty and
\* counter is then a multiple of 65536.  So a zero-length randomize on
\* counter 0 polls, and a call whose counter passes a multiple of 65536
\* without ending on one does not; a call that throws does not poll.
C19_PollDecidedOnce ==
   last.op = "randomize"
      => /\ ~last.threw =>
               (last.polled <=> /\ Len(rng.entropy_sources) > 0
                                /\ rng.counter % PollInterval = 0)
         /\ last.threw => ~last.polled
         /\ (/\ ~last.threw
             /\ last.length = 0
             /\ Len(rng.entropy_sources) > 0
             /\ (last.reseeded \/ last.pre.counter = 0))
               => (last.polled /\ rng.counter = 0)
         /\ (/\ ~last.threw
             /\ LoopStart \div PollInterval # rng.counter \div PollInterval
             /\ rng.counter % PollInterval # 0)
               => /\ ~last.polled
                  /\ rng.source_index = last.pre.source_index
                  /\ rng.extractor.acc = AtLoop.extractor.acc

C19_Witness ==
   /\ last.op = "randomize"
   /\ ~last.threw
   /\ Len(rng.entropy_sources) > 0
   /\ LoopStart \in 1..(PollInterval - 1)
   /\ rng.counter > PollInterval
   /\ ~last.polled

\* C20: with a non-empty registry source_index is below the number of
\* sources (it is 0 with an empty one), whatever calls were made; an
\* incidental poll advances it by one modulo the number of sources, a
\* reseed's sweeps and add_entropy_source leave it, clear() resets it.
C20_CursorInRange ==
   /\ rng.source_index \in Nat
   /\ Len(rng.entropy_sources) > 0 => rng.source_index < Len(rng.entropy_sources)
   /\ Len(rng.entropy_sources) = 0 => rng.source_index = 0
   /\ last.op \in {"reseed", "add_entropy", "add_entropy_source"}
         => rng.source_index = last.pre.source_index
   /\ last.op = "randomize"
         => rng.source_index =
               IF last.polled
               THEN (last.pre.source_index + 1) % Len(rng.entropy_sources)
               ELSE last.pre.source_index
   /\ last.op = "clear" => rng.source_index = 0

C20_Witness ==
   /\ Len(rng.entropy_sources) = 2
   /\ last.op = "randomize"
   /\ last.polled
   /\ last.reseeded
   /\ rng.source_index = 1
====
